---- MODULE Spec2Model ----
(***************************************************************************)
(* A model of src/src/lib.rs: ranked ballots (PreOrder), the election      *)
(* aggregate (Vote) and its two winner rules, condorcet_winner and         *)
(* one_stage.  The functions are pure; they are written here as operators  *)
(* that follow the loops of the source, and the actions apply them to the  *)
(* election held in the state.                                             *)
(***************************************************************************)
EXTENDS Integers, Sequences, FiniteSets

VARIABLES candidates, ballots, op, result, scores

vars == <<candidates, ballots, op, result, scores>>

\* ---------------------------------------------------------------- bounds

\* The largest weight of an enumerated ballot.
MaxWeight == 1

\* The largest number of ballots of an enumerated election.
MaxBallots == 3

\* The longest ranking handed to who_is_first on its own (repeats allowed).
MaxLen == 3

\* The candidate identities of the enumerated elections.
Cand == {"a", "b", "c"}

\* ------------------------------------------------------- values and helpers

\* Option<&T>, and the third outcome of a call: a panic.
None == <<"None">>
Some(c) == <<"Some", c>>
Panic == <<"Panic">>

\* The orders in which a hash set or hash map with the elements S can be
\* enumerated.
Orders(S) ==
    {p \in [1..Cardinality(S) -> S] : \A i, j \in DOMAIN p : p[i] = p[j] => i = j}

SeqsUpTo(S, n) == UNION {[1..k -> S] : k \in 0..n}

\* Rankings that name no candidate twice, of any length (a ranking may omit
\* candidates).
Rankings == UNION {Orders(S) : S \in SUBSET Cand}

Weights == 0..MaxWeight

\* ------------------------------------------------------------- PreOrder

RECURSIVE who_is_first_from(_, _, _, _)
who_is_first_from(self, a, b, i) ==
    IF i > Len(self) THEN None
    ELSE IF a = self[i] THEN Some(a)
    ELSE IF b = self[i] THEN Some(b)
    ELSE who_is_first_from(self, a, b, i + 1)

\* who_is_first looking for a in the whole ranking before it looks for b.
who_is_first_a_then_b(self, a, b) ==
    IF \E i \in DOMAIN self : self[i] = a THEN Some(a)
    ELSE IF \E i \in DOMAIN self : self[i] = b THEN Some(b)
    ELSE None

who_is_first(self, a, b) == who_is_first_from(self, a, b, 1)

\* ------------------------------------------------------ condorcet_winner

\* The loop over the ballots for one pair: the two scores, or Panic when a
\* ballot's who_is_first is None (the unwrap).
RECURSIVE pair_scores(_, _, _, _, _)
pair_scores(bs, candidate, other_candidate, i, sc) ==
    IF i > Len(bs) THEN sc
    ELSE LET w == who_is_first(bs[i][2], candidate, other_candidate) IN
         IF w = None THEN Panic
         ELSE IF w = Some(candidate)
              THEN pair_scores(bs, candidate, other_candidate, i + 1,
                               <<sc[1] + bs[i][1], sc[2]>>)
              ELSE pair_scores(bs, candidate, other_candidate, i + 1,
                               <<sc[1], sc[2] + bs[i][1]>>)

\* loses with a tie counted as a win.
loses_strict(sc) == sc[1] < sc[2]

\* Whether the pair's comparison sends the outer loop to its next candidate.
loses(sc) == sc[1] <= sc[2]

\* The loop over the other candidates, in the set's order with the candidate
\* itself left out: "win" when it runs to its end, "lose" on continue 'outer.
RECURSIVE inner_loop(_, _, _, _)
inner_loop(bs, ord, ci, oi) ==
    IF oi > Len(ord) THEN "win"
    ELSE IF oi = ci THEN inner_loop(bs, ord, ci, oi + 1)
    ELSE LET sc == pair_scores(bs, ord[ci], ord[oi], 1, <<0, 0>>) IN
         IF sc = Panic THEN "panic"
         ELSE IF loses(sc) THEN "lose"
         ELSE inner_loop(bs, ord, ci, oi + 1)

RECURSIVE outer_loop(_, _, _, _)
outer_loop(bs, ord, ci, res) ==
    IF ci > Len(ord) THEN res
    ELSE LET r == inner_loop(bs, ord, ci, 1) IN
         IF r = "panic" THEN Panic
         ELSE IF r = "win" THEN outer_loop(bs, ord, ci + 1, Some(ord[ci]))
         ELSE outer_loop(bs, ord, ci + 1, res)

\* ord is the order in which the candidate set is enumerated.
condorcet_winner(bs, ord) == outer_loop(bs, ord, 1, None)

\* -------------------------------------------------------------- one_stage

\* scores.entry(candidate).and_modify(|x| *x += n).or_insert(0)
entry_update(sc, candidate, n) ==
    IF candidate \in DOMAIN sc
    THEN [sc EXCEPT ![candidate] = @ + n]
    ELSE [k \in DOMAIN sc \cup {candidate} |-> IF k = candidate THEN 0 ELSE sc[k]]

\* The tally loop: the map and whether indexing ballot[0] panicked.
RECURSIVE tally_loop(_, _, _)
tally_loop(bs, i, sc) ==
    IF i > Len(bs) THEN [map |-> sc, panic |-> FALSE]
    ELSE IF Len(bs[i][2]) = 0 THEN [map |-> sc, panic |-> TRUE]
    ELSE tally_loop(bs, i + 1, entry_update(sc, bs[i][2][1], bs[i][1]))

EmptyMap == [k \in {} |-> 0]

tally(bs) == tally_loop(bs, 1, EmptyMap)

\* x put into the sorted sequence s behind every entry whose score is not
\* larger: the sort is stable.
RECURSIVE insert_sorted(_, _, _)
insert_sorted(s, x, sc) ==
    IF s = <<>> THEN <<x>>
    ELSE IF sc[x] < sc[Head(s)] THEN <<x>> \o s
    ELSE <<Head(s)>> \o insert_sorted(Tail(s), x, sc)

RECURSIVE sorted_from(_, _, _, _)
sorted_from(p, i, acc, sc) ==
    IF i > Len(p) THEN acc
    ELSE sorted_from(p, i + 1, insert_sorted(acc, p[i], sc), sc)

\* scores.iter().sorted_by_key(|s| s.1), p being the map's enumeration order.
sorted_by_key(p, sc) == sorted_from(p, 1, <<>>, sc)

\* The loop over the sorted entries: it returns in its second round, and
\* reaches unreachable!() when there is none.
winner_loop(s, sc) ==
    IF Len(s) < 2 THEN Panic
    ELSE IF sc[s[1]] = sc[s[2]] THEN None
    ELSE Some(s[1])

one_stage_from(t, p) ==
    IF t.panic THEN Panic ELSE winner_loop(sorted_by_key(p, t.map), t.map)

\* The results of one_stage, one for each enumeration order of the map.
one_stage(bs) ==
    LET t == tally(bs) IN {one_stage_from(t, p) : p \in Orders(DOMAIN t.map)}

\* ------------------------------------------------------------ the machine

BallotLists(R) == SeqsUpTo(Weights \X R, MaxBallots)

\* tests::condorcet_1 and tests::condorcet_2.
Test1 ==
    [candidates |-> {"a", "b", "c"},
     ballots |-> << <<35, <<"a", "b", "c">> >>,
                    <<25, <<"b", "c", "a">> >>,
                    <<15, <<"c", "b", "a">> >> >>]

Test2 ==
    [candidates |-> {"a", "b", "c", "d"},
     ballots |-> << <<42, <<"a", "b", "c", "d">> >>,
                    <<26, <<"b", "c", "d", "a">> >>,
                    <<17, <<"d", "c", "b", "a">> >>,
                    <<15, <<"c", "d", "b", "a">> >> >>]

\* Before any call.
Fresh ==
    /\ op = <<"none">>
    /\ result = None
    /\ scores = EmptyMap

\* Any election value: the fields of Vote are set by a struct literal, so a
\* ranking may omit candidates of the set or name others.
Init ==
    /\ \/ /\ candidates \in SUBSET Cand
          /\ ballots \in BallotLists(Rankings)
       \/ \E t \in {Test1, Test2} :
             candidates = t.candidates /\ ballots = t.ballots
    /\ Fresh

\* The elections whose every ballot ranks exactly the candidates of the set.
InitWellFormed ==
    /\ \/ /\ candidates \in SUBSET Cand
          /\ ballots \in BallotLists(Orders(candidates))
       \/ \E t \in {Test1, Test2} :
             candidates = t.candidates /\ ballots = t.ballots
    /\ Fresh

\* One ranking, in which a candidate may occur more than once, to be queried.
InitPreOrder ==
    /\ candidates = Cand
    /\ ballots \in [1..1 -> {1} \X SeqsUpTo(Cand, MaxLen)]
    /\ Fresh

\* The set's enumeration order is not fixed by the program: any order.
CondorcetWinner ==
    /\ \E ord \in Orders(candidates) :
          result' = condorcet_winner(ballots, ord)
    /\ op' = <<"condorcet_winner">>
    /\ scores' = EmptyMap
    /\ UNCHANGED <<candidates, ballots>>

\* scores is the map the tally loop built; the map's enumeration order is
\* any order.
OneStage ==
    /\ result' \in one_stage(ballots)
    /\ scores' = tally(ballots).map
    /\ op' = <<"one_stage">>
    /\ UNCHANGED <<candidates, ballots>>

\* A query of one ballot's ranking; d is a candidate no ranking holds.
WhoIsFirst ==
    \E i \in DOMAIN ballots, a, b \in Cand \cup {"d"} :
        /\ result' = who_is_first(ballots[i][2], a, b)
        /\ op' = <<"who_is_first", i, a, b>>
        /\ UNCHANGED <<candidates, ballots, scores>>

Next == CondorcetWinner \/ OneStage

Spec == Init /\ [][Next]_vars

SpecWellFormed == InitWellFormed /\ [][Next]_vars

SpecPreOrder == InitPreOrder /\ [][WhoIsFirst]_vars

\* ------------------------------------------------ what the claims speak of

Range(r) == {r[i] : i \in DOMAIN r}

\* The summed weight of the ballots at the indices I.
RECURSIVE WeightSum(_, _)
WeightSum(bs, I) ==
    IF I = {} THEN 0
    ELSE LET i == CHOOSE j \in I : TRUE IN bs[i][1] + WeightSum(bs, I \ {i})

Occurrences(r, c) == {i \in DOMAIN r : r[i] = c}

\* Every ballot ranks every member of the candidate set exactly once.
WellFormed ==
    \A i \in DOMAIN ballots : \A c \in candidates :
        Cardinality(Occurrences(ballots[i][2], c)) = 1

Position(r, c) == CHOOSE i \in DOMAIN r : r[i] = c

\* The summed weight of the ballots that rank c above o (both ranked).
Prefer(c, o) ==
    WeightSum(ballots, {i \in DOMAIN ballots :
        Position(ballots[i][2], c) < Position(ballots[i][2], o)})

\* The candidates that strictly beat every other candidate of the set.
MajorityWinners ==
    {c \in candidates : \A o \in candidates \ {c} : Prefer(c, o) > Prefer(o, c)}

NonEmptyRankings == \A i \in DOMAIN ballots : Len(ballots[i][2]) > 0

\* The summed weight of the ballots that rank c at index 0.
FirstPreferenceTotal(c) ==
    WeightSum(ballots, {i \in DOMAIN ballots :
        Len(ballots[i][2]) > 0 /\ ballots[i][2][1] = c})

RankedFirst == {ballots[i][2][1] : i \in {j \in DOMAIN ballots : Len(ballots[j][2]) > 0}}

\* Every identity an election speaks of.
Named == candidates \cup UNION {Range(ballots[i][2]) : i \in DOMAIN ballots}

CalledCondorcet == op = <<"condorcet_winner">>
CalledOneStage == op = <<"one_stage">>

\* The outcomes of condorcet_winner over the set's enumeration orders.
CondorcetOutcomes(bs) == {condorcet_winner(bs, ord) : ord \in Orders(candidates)}

\* ------------------------------------------------------------- the claims

\* C1: on an election whose every ballot ranks every member of the candidate
\* set exactly once, condorcet_winner returns Some(c) exactly when c's summed
\* pairwise weight strictly exceeds the other's against every other member,
\* and None when there is no such c; tests condorcet_1 and condorcet_2 give b.
C1_CondorcetMajority ==
    (CalledCondorcet /\ WellFormed) =>
        /\ \A c \in candidates : result = Some(c) <=> c \in MajorityWinners
        /\ result = None <=> MajorityWinners = {}
        /\ (\E t \in {Test1, Test2} :
                candidates = t.candidates /\ ballots = t.ballots)
             => result = Some("b")

\* C1's case: three candidates in a majority cycle (a beats b, b beats c,
\* c beats a), and the call has returned None.
C1_Witness ==
    /\ CalledCondorcet
    /\ candidates = Cand
    /\ WellFormed
    /\ Prefer("a", "b") > Prefer("b", "a")
    /\ Prefer("b", "c") > Prefer("c", "b")
    /\ Prefer("c", "a") > Prefer("a", "c")
    /\ result = None

\* C2: with at least one ballot, a candidate whose first-preference total
\* strictly exceeds every other candidate's is what one_stage returns.  Stated
\* for the elections in which two or more candidates are ranked first, where
\* the loop of one_stage returns (C8 is about the others).
C2_StrictPluralityWins ==
    (/\ CalledOneStage
     /\ Len(ballots) >= 1
     /\ NonEmptyRankings
     /\ Cardinality(RankedFirst) >= 2) =>
        \A c \in Named :
            (\A o \in Named \ {c} : FirstPreferenceTotal(c) > FirstPreferenceTotal(o))
                => result = Some(c)

\* C3: when two distinct candidates share the highest first-preference total,
\* one_stage returns None, whatever lower totals the others have.  Stated for
\* two candidates that are both ranked first on some ballot, where the loop
\* of one_stage returns (C8 is about the others).
C3_TopTieIsNone ==
    (CalledOneStage /\ NonEmptyRankings) =>
        ((\E c, d \in RankedFirst :
            /\ c # d
            /\ FirstPreferenceTotal(c) = FirstPreferenceTotal(d)
            /\ \A o \in Named : FirstPreferenceTotal(o) <= FirstPreferenceTotal(c))
          => result = None)

\* C4: a candidate returned by condorcet_winner or by one_stage is a member of
\* the election's candidate set.
C4_WinnerIsMember ==
    (CalledCondorcet \/ CalledOneStage) =>
        \A c \in Named : result = Some(c) => c \in candidates

\* C5: with at least two candidates and a ballot whose ranking omits a member
\* of the candidate set, condorcet_winner panics: it returns no result.
C5_OmissionPanics ==
    (/\ CalledCondorcet
     /\ Cardinality(candidates) >= 2
     /\ \E i \in DOMAIN ballots : ~(candidates \subseteq Range(ballots[i][2])))
        => result = Panic

\* C6: appending a ballot of weight 0 that ranks all the candidates leaves the
\* result of condorcet_winner and the result of one_stage unchanged.  Stated
\* for the calls of one_stage that return.
C6_ZeroWeightIsNeutral ==
    \A r \in Orders(candidates) :
        LET more == Append(ballots, <<0, r>>) IN
        /\ CalledCondorcet =>
              /\ result \in CondorcetOutcomes(more)
              /\ CondorcetOutcomes(more) = CondorcetOutcomes(ballots)
        /\ (CalledOneStage /\ result # Panic) => one_stage(more) = {result}

\* C7: the outcome of condorcet_winner is the same for every enumeration order
\* of the candidate set, and the outcome of one_stage is the same for every
\* enumeration order of the tally map.
C7_OrderIndependent ==
    /\ CalledCondorcet => CondorcetOutcomes(ballots) = {result}
    /\ CalledOneStage => one_stage(ballots) = {result}

\* C8: when the tally has exactly one entry or none, one_stage returns a value
\* and does not panic.
C8_DegenerateTallyReturns ==
    (CalledOneStage /\ NonEmptyRankings /\ Cardinality(RankedFirst) <= 1)
        => result # Panic

\* C9: who_is_first(a, b) returns whichever of a and b occurs at the smaller
\* index of the ranking, and None exactly when neither occurs in it.
C9_WhoIsFirst ==
    (Len(op) = 4 /\ op[1] = "who_is_first") =>
        LET r == ballots[op[2]][2]
            a == op[3]
            b == op[4]
            hits == Occurrences(r, a) \cup Occurrences(r, b)
        IN /\ result = None <=> hits = {}
           /\ hits # {} =>
                 \E i \in hits :
                    /\ \A j \in hits : i <= j
                    /\ result = Some(r[i])

\* C9's case: both candidates occur, b before a, and the query has answered b.
C9_Witness ==
    /\ Len(op) = 4
    /\ op[1] = "who_is_first"
    /\ op[3] = "a"
    /\ op[4] = "b"
    /\ ballots[op[2]][2] = <<"c", "b", "a">>
    /\ result = Some("b")

\* C10: after the tally loop has processed all ballots, the map holds, for
\* every candidate ranked first on some ballot, the sum of the weights of all
\* the ballots that rank it first, and no entry for any other candidate.
C10_TallyIsFirstPreferenceSum ==
    (CalledOneStage /\ NonEmptyRankings) =>
        /\ DOMAIN scores = RankedFirst
        /\ \A c \in RankedFirst : scores[c] = FirstPreferenceTotal(c)

====
